---------------------------- MODULE Spec2Model ----------------------------
(***************************************************************************)
(* State-machine model of the task_manager Django backend:                 *)
(*   PUT  /user/                     UserView.put                          *)
(*   PUT  /task/                     TaskView.put                          *)
(*   POST /tasks/<task_id>/assign/   TaskView.post                         *)
(*   GET  /users/<user_id>/tasks/    UserTasksView.get                     *)
(* The persisted state is the users table, the tasks table and the         *)
(* many-to-many through table of Task.assigned_users.  Every handler is    *)
(* one action, except UserManager.create_superuser, which saves twice and  *)
(* is therefore two steps that other requests may interleave with.         *)
(* The actions model requests that passed the views' permission classes.   *)
(* `resp` is the response of the latest step together with the request it  *)
(* answers; `scan` and `admin_requested` are history kept for the          *)
(* properties.  Spec is the whole service; SpecUsers, SpecCreate,          *)
(* SpecAssign and SpecList run one service each.                           *)
(***************************************************************************)
EXTENDS Integers, Sequences, FiniteSets, Bags, TLC

-----------------------------------------------------------------------------
(* Bounds of the model *)

\* rows the users table may hold
MaxUsers == 2
\* rows the tasks table may hold
MaxTasks == 2
\* largest value of the clock that stamps Task.created_at
MaxClock == 1
\* longest id list a request body carries
MaxIds == 2
\* largest page number a listing request asks for
MaxPage == 3

-----------------------------------------------------------------------------
(* Generic helpers *)

Range(s) == {s[i] : i \in DOMAIN s}

SeqsUpTo(S, n) == UNION {[1..k -> S] : k \in 0..n}

\* an optional request field: <<>> when absent, <<v>> when present
Opt(S) == {<<>>} \cup {<<v>> : v \in S}

Min(a, b) == IF a <= b THEN a ELSE b

\* Python's sorted() on a set of ints
RECURSIVE sorted(_)
sorted(S) ==
    IF S = {} THEN <<>>
    ELSE LET m == CHOOSE x \in S : \A y \in S : x <= y
         IN <<m>> \o sorted(S \ {m})

\* a list comprehension [x for x in s if x not in S]
RECURSIVE FilterNotIn(_, _)
FilterNotIn(s, S) ==
    IF s = <<>> THEN <<>>
    ELSE (IF Head(s) \in S THEN <<>> ELSE <<Head(s)>>) \o FilterNotIn(Tail(s), S)

-----------------------------------------------------------------------------
(* Emails are sequences of characters, so that normalize_email is computed *)

Lower(c) == IF c = "A" THEN "a" ELSE IF c = "X" THEN "x" ELSE c

LowerSeq(s) == [i \in DOMAIN s |-> Lower(s[i])]

\* str.strip(): drop leading and trailing blanks
RECURSIVE LStrip(_)
LStrip(s) == IF s # <<>> /\ Head(s) = " " THEN LStrip(Tail(s)) ELSE s

RECURSIVE RStrip(_)
RStrip(s) ==
    IF s # <<>> /\ s[Len(s)] = " " THEN RStrip(SubSeq(s, 1, Len(s) - 1)) ELSE s

Strip(s) == RStrip(LStrip(s))

\* BaseUserManager.normalize_email: email.strip().rsplit("@", 1), the domain
\* part lower-cased; an email without "@" is returned as it came
normalize_email(email) ==
    LET t == Strip(email)
        ats == {i \in DOMAIN t : t[i] = "@"}
    IN IF ats = {} THEN email
       ELSE LET k == CHOOSE i \in ats : \A j \in ats : j <= i
            IN SubSeq(t, 1, k) \o LowerSeq(SubSeq(t, k + 1, Len(t)))

\* the email values the create-user requests of the model carry; <<>> is ""
EmailValues ==
    { <<>>,
      <<"a", "@", "x">>,
      <<"a", "@", "X">>,
      <<"a", "@", "x", " ">>,
      <<"A", "@", "x">>,
      <<"a", "x">> }


-----------------------------------------------------------------------------
(* State *)

VARIABLES
    users,            \* users table: row i is the User with id i
    superuser_calls,  \* create_superuser calls between their two saves
    admin_requested,  \* ids of the rows inserted for a request with is_admin
    tasks,            \* tasks table: row i is the Task with id i
    assigned,         \* through table of Task.assigned_users, a bag of <<task_id, user_id>>
    clock,            \* the time auto_now_add stamps on a new Task
    resp,             \* the response the latest step returned (NoResponse if none)
    scan              \* the pages a client has read of one user's task list

vars == <<users, superuser_calls, admin_requested, tasks, assigned, clock, resp, scan>>

db == <<users, tasks, assigned>>

NoResponse == [op |-> "none", status |-> 0]

NoScan == [active |-> FALSE]

UserIds == DOMAIN users

TaskIds == DOMAIN tasks

-----------------------------------------------------------------------------
(* User service *)

\* models.User: a new instance with the field defaults
NewUser(email) ==
    [email |-> email, is_admin |-> FALSE, is_staff |-> FALSE,
     is_active |-> TRUE, is_superadmin |-> FALSE]

\* the text of the IntegrityError the database raises on a second row with
\* the same email, as the MySQL backend words it
unique_violation_message == <<"Duplicate", "entry", "for", "key", "email">>

\* email = models.EmailField(unique=True): does inserting this email violate it
EmailTaken(rows, email) == \E i \in DOMAIN rows : rows[i].email = email

Raise(type, msg) == [ok |-> FALSE, type |-> type, msg |-> msg]

\* create_user without the normalize_email call: the email is stored as sent
create_user_raw_email(rows, email) ==
    IF email = <<>> \/ email[1] = <<>>
    THEN Raise("ValueError", <<"Email", "field", "cannot", "be", "empty">>)
    ELSE IF EmailTaken(rows, email[1])
         THEN Raise("IntegrityError", unique_violation_message)
         ELSE [ok |-> TRUE, rows |-> Append(rows, NewUser(email[1]))]

\* UserManager.create_user on the table `rows`: the exception raised, or the
\* table with the new row
create_user(rows, email) ==
    IF email = <<>> \/ email[1] = <<>>
    THEN Raise("ValueError", <<"Email", "field", "cannot", "be", "empty">>)
    ELSE LET e == normalize_email(email[1])
         IN IF EmailTaken(rows, e)
            THEN Raise("IntegrityError", unique_violation_message)
            ELSE [ok |-> TRUE, rows |-> Append(rows, NewUser(e))]

\* "Duplicate entry" in str(e)
HasDuplicateEntry(msg) ==
    \E i \in 1..(Len(msg) - 1) : msg[i] = "Duplicate" /\ msg[i + 1] = "entry"

\* the except clauses of UserView.put
UserErrorStatus(exc) ==
    IF exc.type = "IntegrityError"
    THEN (IF HasDuplicateEntry(exc.msg) THEN 409 ELSE 500)
    ELSE 500

\* Model.user_serializer, the fields the claims read
user_serializer(rows, id) ==
    [id |-> id, email |-> rows[id].email, is_admin |-> rows[id].is_admin,
     is_staff |-> rows[id].is_staff, is_superadmin |-> rows[id].is_superadmin]

\* the bodies PUT /user/ receives: email absent, "" or a string; is_admin or not
UserRequests == [email : Opt(EmailValues), is_admin : BOOLEAN]

\* UserView.put, up to the response or, for is_admin, up to the first save
\* of create_superuser
UserViewPut(data) ==
    LET r == create_user(users, data.email)
    IN /\ r.ok => Len(users) < MaxUsers
       /\ IF ~r.ok
          THEN /\ resp' = [op |-> "create_user", req |-> data,
                           status |-> UserErrorStatus(r), error |-> r.msg]
               /\ UNCHANGED <<users, superuser_calls, admin_requested>>
          ELSE /\ users' = r.rows
               /\ IF data.is_admin
                  THEN /\ superuser_calls' =
                              superuser_calls \cup {[id |-> Len(r.rows), req |-> data]}
                       /\ admin_requested' = admin_requested \cup {Len(r.rows)}
                       /\ resp' = NoResponse
                  ELSE /\ resp' = [op |-> "create_user", req |-> data, status |-> 201,
                                   data |-> user_serializer(r.rows, Len(r.rows))]
                       /\ UNCHANGED <<superuser_calls, admin_requested>>
       /\ scan' = NoScan
       /\ UNCHANGED <<tasks, assigned, clock>>

\* UserManager.create_superuser after create_user returned: the three flags
\* are set on the instance and it is saved again
PromoteUser(row) ==
    [row EXCEPT !.is_admin = TRUE, !.is_staff = TRUE, !.is_superadmin = TRUE]

\* the rest of UserView.put for an is_admin request: second save and response
UserViewPutSuperuserSave(call) ==
    /\ call \in superuser_calls
    /\ users' = [users EXCEPT ![call.id] = PromoteUser(users[call.id])]
    /\ superuser_calls' = superuser_calls \ {call}
    /\ resp' = [op |-> "create_user", req |-> call.req, status |-> 201,
                data |-> user_serializer(users', call.id)]
    /\ scan' = NoScan
    /\ UNCHANGED <<admin_requested, tasks, assigned, clock>>

-----------------------------------------------------------------------------
(* Task service: create and assign *)

\* the ids a request may name: every id a User can have and one no User has
RequestUserIds == 1..(MaxUsers + 1)

\* the task ids a request may name: every id a Task can have and one more
RequestTaskIds == 1..(MaxTasks + 1)

\* a JSON id of the body of PUT /task/: the int n, or the str that spells n
IdTokens == [str : BOOLEAN, n : RequestUserIds]

\* int(user_id) if isinstance(user_id, str) else user_id
ToInt(tok) == tok.n

RequiredFields == <<"name", "description", "task_type">>

\* the id lists a body carries: ints, or the strs that spell them
IdLists ==
    {[i \in DOMAIN l |-> [str |-> st, n |-> l[i]]] :
         l \in SeqsUpTo(RequestUserIds, MaxIds), st \in BOOLEAN}

\* the bodies PUT /task/ receives.  `has` are the required keys present;
\* user_id is absent, a scalar (list = FALSE, one item) or a list of ids.
\* The values of name, description, task_type and status are stored and
\* returned as they come and decide nothing, so the model leaves them out.
TaskRequests ==
    { [has |-> Range(RequiredFields), user_id |-> uid] :
          uid \in Opt([list : {TRUE}, items : IdLists]
                      \cup [list : {FALSE}, items : [1..1 -> IdTokens]]) }
    \cup
    { [has |-> Range(RequiredFields) \ {f}, user_id |-> uid] :
          f \in Range(RequiredFields),
          uid \in Opt([list : {TRUE}, items : {<<[str |-> FALSE, n |-> 1]>>}]) }

\* data['name'], data['description'], data['task_type'] are read in this
\* order: the first key absent raises KeyError
FirstMissingField(has) ==
    LET idx == {i \in DOMAIN RequiredFields : RequiredFields[i] \notin has}
    IN IF idx = {} THEN <<>>
       ELSE <<RequiredFields[CHOOSE i \in idx : \A j \in idx : i <= j]>>

\* Task.objects.create: the row stored; auto_now_add stamps created_at
NewTask(data, now) == [created_at |-> now]

\* the user_ids list of TaskView.put: a scalar is wrapped, strs are coerced
PutUserIds(uid) ==
    LET listed == IF uid.list THEN uid.items ELSE <<uid.items[1]>>
    IN [i \in DOMAIN listed |-> ToInt(listed[i])]

\* User.objects.filter(id__in=ids): the ids of the rows selected
FilterUsers(rows, ids) == ids \cap DOMAIN rows

\* the users a task is assigned to
Assignees(bag, t) == {u \in RequestUserIds : BagIn(<<t, u>>, bag)}

\* an add that inserts a through row for every user, assigned already or not
m2m_add_all(bag, t, ids) == bag (+) SetToBag({<<t, u>> : u \in ids})

\* task.assigned_users.add(*users): a through row for every user not yet there
m2m_add(bag, t, ids) ==
    bag (+) SetToBag({<<t, u>> : u \in ids \ Assignees(bag, t)})

\* a check that fails the assignment only when no requested user was found
PutUsersMismatchNoneFound(found, user_ids) == found = {} /\ user_ids # <<>>

\* the branch `if len(users) != len(user_ids)` of TaskView.put
PutUsersMismatch(found, user_ids) == Cardinality(found) # Len(user_ids)

\* TaskView.put.  The response record also keeps the id of the Task the
\* call persisted
TaskViewPut(data) ==
    LET miss == FirstMissingField(data.has)
        t == Len(tasks) + 1
    IN /\ IF miss # <<>>
          THEN /\ resp' = [op |-> "create_task", req |-> data, status |-> 500,
                           error |-> <<"KeyError", miss[1]>>]
               /\ UNCHANGED <<tasks, assigned>>
          ELSE /\ Len(tasks) < MaxTasks
               /\ tasks' = Append(tasks, NewTask(data, clock))
               /\ IF data.user_id = <<>>
                  THEN /\ assigned' = assigned
                       /\ resp' = [op |-> "create_task", req |-> data, status |-> 201,
                                   id |-> t, assigned_user_ids |-> {}]
                  ELSE LET user_ids == PutUserIds(data.user_id[1])
                           found == FilterUsers(users, Range(user_ids))
                       IN IF PutUsersMismatch(found, user_ids)
                          THEN /\ assigned' = assigned
                               /\ resp' = [op |-> "create_task", req |-> data,
                                           status |-> 400, id |-> t,
                                           missing_ids |-> FilterNotIn(user_ids, found)]
                          ELSE /\ assigned' = m2m_add(assigned, t, found)
                               /\ resp' = [op |-> "create_task", req |-> data,
                                           status |-> 201, id |-> t,
                                           assigned_user_ids |-> Assignees(assigned', t)]
       /\ scan' = NoScan
       /\ UNCHANGED <<users, superuser_calls, admin_requested, clock>>

\* the bodies POST /tasks/<task_id>/assign/ receives: user_ids absent, a list
\* of ids, or a value that is no list (list = FALSE)
AssignRequests ==
    [user_ids : Opt([list : {TRUE}, items : SeqsUpTo(RequestUserIds, MaxIds)]
                    \cup [list : {FALSE}, items : [1..1 -> RequestUserIds]])]

\* request.data.get('user_ids', [])
PostUserIds(body) ==
    IF body.user_ids = <<>> THEN [list |-> TRUE, items |-> <<>>] ELSE body.user_ids[1]

\* the missing ids as TaskView.put lists them: request order, repeats kept
MissingIdsRequestOrder(user_ids, found) == FilterNotIn(user_ids, found)

\* sorted(missing_ids) with missing_ids = set(user_ids) - found_ids
MissingIds(user_ids, found) == sorted(Range(user_ids) \ found)

\* the status TaskView.post answers when get_object_or_404 raises Http404:
\* the handler's own `except Exception` catches it
PostNoTaskStatus == 500

\* TaskView.post.  The response record keeps set(user_ids) of the request
TaskViewPost(task_id, body) ==
    LET v == PostUserIds(body)
        sent == [op |-> "assign", task_id |-> task_id, list |-> v.list,
                 ids |-> Range(v.items)]
    IN /\ IF task_id \notin TaskIds
          THEN /\ resp' = [sent EXCEPT !.list = TRUE, !.ids = {}]
                              @@ [status |-> PostNoTaskStatus,
                                  error |-> <<"No", "Task", "matches", "the",
                                              "given", "query.">>]
               /\ assigned' = assigned
          ELSE IF ~v.list
               THEN /\ resp' = sent @@ [status |-> 400]
                    /\ assigned' = assigned
               ELSE LET found == FilterUsers(users, Range(v.items))
                        missing == MissingIds(v.items, found)
                    IN IF missing # <<>>
                       THEN /\ resp' = sent @@ [status |-> 404, missing_ids |-> missing]
                            /\ assigned' = assigned
                       ELSE /\ assigned' = m2m_add(assigned, task_id, found)
                            /\ resp' = sent @@ [status |-> 200,
                                                count |-> Cardinality(found),
                                                assigned_users |-> found]
       /\ scan' = NoScan
       /\ UNCHANGED <<users, superuser_calls, admin_requested, tasks, clock>>

\* time passes between two requests
Tick ==
    /\ clock < MaxClock
    /\ clock' = clock + 1
    /\ resp' = NoResponse
    /\ scan' = NoScan
    /\ UNCHANGED <<users, superuser_calls, admin_requested, tasks, assigned>>

-----------------------------------------------------------------------------
(* Task service: the paginated list of a user's tasks *)

\* CustomPagination.page_size
DefaultPageSize == 10

\* CustomPagination.max_page_size
MaxPageSize == 100

\* the page_size values a request asks for
PageSizeValues == {0, 1, 2, 500}

\* the query strings GET /users/<user_id>/tasks/ receives
ListQueries == [page : Opt(0..MaxPage), page_size : Opt(PageSizeValues)]

\* PageNumberPagination.get_page_size: a positive page_size is cut off at
\* max_page_size; an absent or non-positive one gives the default
get_page_size(q) ==
    IF q.page_size # <<>> /\ q.page_size[1] > 0
    THEN Min(q.page_size[1], MaxPageSize)
    ELSE DefaultPageSize

\* request.query_params.get('page', 1)
get_page_number(q) == IF q.page = <<>> THEN 1 ELSE q.page[1]

\* Paginator.num_pages with orphans = 0 and allow_empty_first_page
num_pages(count, per_page) ==
    LET hits == IF count < 1 THEN 1 ELSE count
    IN (hits + per_page - 1) \div per_page

\* Paginator.validate_number: the page exists
ValidPage(number, count, per_page) ==
    number >= 1 /\ number <= num_pages(count, per_page)

\* how many rows of the join of tasks and the through table a task has
JoinCopies(bag, t, u) == CopiesIn(<<t, u>>, bag)

\* Task.objects.filter(assigned_users=user_id): row count of the join
JoinCount(bag, rows, u) ==
    LET Sum[n \in 0..Len(rows)] ==
            IF n = 0 THEN 0 ELSE Sum[n - 1] + JoinCopies(bag, n, u)
    IN Sum[Len(rows)]

\* is s ordered by '-created_at'
OrderedByCreatedDesc(rows, s) ==
    \A i, j \in DOMAIN s : i < j => rows[s[i]].created_at >= rows[s[j]].created_at

\* .order_by('-created_at'): the row orders one SELECT of the queryset may
\* produce.  Rows equal in created_at have no order among them in SQL.
QueryOrders(bag, rows, u) ==
    LET n == JoinCount(bag, rows, u)
    IN {s \in [1..n -> DOMAIN rows] :
            /\ \A t \in DOMAIN rows :
                   Cardinality({i \in 1..n : s[i] = t}) = JoinCopies(bag, t, u)
            /\ OrderedByCreatedDesc(rows, s)}

\* Paginator.page: queryset[bottom:top]
PageSlice(order, number, per_page) ==
    LET bottom == (number - 1) * per_page
        top == Min(bottom + per_page, Len(order))
    IN SubSeq(order, bottom + 1, top)

\* the "user" object of the response
UserSummary(rows, id) ==
    [id |-> id, email |-> rows[id].email, is_admin |-> rows[id].is_admin]

\* the client's record of pages 1..n read one after the other
ScanAfter(user_id, per_page, number, page_tasks, total) ==
    IF number = 1
    THEN [active |-> TRUE, user |-> user_id, per_page |-> per_page, read |-> 1,
          got |-> page_tasks, pages |-> num_pages(total, per_page)]
    ELSE IF /\ scan.active
            /\ scan.user = user_id
            /\ scan.per_page = per_page
            /\ number = scan.read + 1
         THEN [scan EXCEPT !.read = number, !.got = scan.got \o page_tasks]
         ELSE NoScan

\* UserTasksView.get
UserTasksViewGet(user_id, q) ==
    /\ IF user_id \notin UserIds
       THEN /\ resp' = [op |-> "list", user_id |-> user_id, req |-> q, status |-> 404]
            /\ scan' = NoScan
       ELSE LET per_page == get_page_size(q)
                number == get_page_number(q)
                count == JoinCount(assigned, tasks, user_id)
            IN IF ~ValidPage(number, count, per_page)
               THEN /\ resp' = [op |-> "list", user_id |-> user_id, req |-> q,
                                status |-> 500,
                                error |-> <<"Server", "error:", "Invalid", "page.">>]
                    /\ scan' = NoScan
               ELSE \E order \in QueryOrders(assigned, tasks, user_id) :
                       LET page_tasks == PageSlice(order, number, per_page)
                       IN /\ resp' = [op |-> "list", user_id |-> user_id, req |-> q,
                                      status |-> 200, count |-> count,
                                      has_next |-> number < num_pages(count, per_page),
                                      has_previous |-> number > 1,
                                      user |-> UserSummary(users, user_id),
                                      tasks |-> page_tasks]
                          /\ scan' = ScanAfter(user_id, per_page, number, page_tasks, count)
    /\ UNCHANGED <<users, superuser_calls, admin_requested, tasks, assigned, clock>>

-----------------------------------------------------------------------------
(* Specifications *)

\* the whole service, from empty tables
Init ==
    /\ users = <<>>
    /\ superuser_calls = {}
    /\ admin_requested = {}
    /\ tasks = <<>>
    /\ assigned = EmptyBag
    /\ clock = 0
    /\ resp = NoResponse
    /\ scan = NoScan

Next ==
    \/ \E data \in UserRequests : UserViewPut(data)
    \/ \E call \in superuser_calls : UserViewPutSuperuserSave(call)
    \/ \E data \in TaskRequests : TaskViewPut(data)
    \/ \E t \in RequestTaskIds, body \in AssignRequests : TaskViewPost(t, body)
    \/ \E u \in RequestUserIds, q \in ListQueries : UserTasksViewGet(u, q)
    \/ Tick

Spec == Init /\ [][Next]_vars

-----------------------------------------------------------------------------
(* The three services on their own.  The handlers of one service meet the  *)
(* others only through the tables, so each is also run from the tables the *)
(* other services can have left behind.                                    *)

\* the k-th email registered: a@x, aa@x, ...
SampleEmail(k) == [i \in 1..k |-> "a"] \o <<"@", "x">>

\* the users table after k successful create_user calls
RECURSIVE RegisteredUsers(_)
RegisteredUsers(k) ==
    IF k = 0 THEN <<>>
    ELSE create_user(RegisteredUsers(k - 1), <<SampleEmail(k)>>).rows

UserTables == {RegisteredUsers(k) : k \in 0..MaxUsers}

\* the tasks tables TaskView.put can have built: created_at never decreases
TaskTables ==
    {s \in SeqsUpTo([created_at : 0..MaxClock], MaxTasks) :
        \A i, j \in DOMAIN s : i < j => s[i].created_at <= s[j].created_at}

\* the through tables m2m_add can have built over these users and tasks
ThroughTables(urows, trows) ==
    {SetToBag(S) : S \in SUBSET ((DOMAIN trows) \X (DOMAIN urows))}

\* user registration alone
NextUsers ==
    \/ \E data \in UserRequests : UserViewPut(data)
    \/ \E call \in superuser_calls : UserViewPutSuperuserSave(call)

SpecUsers == Init /\ [][NextUsers]_vars

\* the tasks table after n tasks were created at time `now`
RECURSIVE CreatedTasks(_, _)
CreatedTasks(n, now) ==
    IF n = 0 THEN <<>>
    ELSE Append(CreatedTasks(n - 1, now), NewTask([has |-> Range(RequiredFields)], now))

\* task creation, over any registered users
InitCreate ==
    /\ users \in UserTables
    /\ superuser_calls = {}
    /\ admin_requested = {}
    /\ tasks = <<>>
    /\ assigned = EmptyBag
    /\ clock = 0
    /\ resp = NoResponse
    /\ scan = NoScan

NextCreate == \E data \in TaskRequests : TaskViewPut(data)

SpecCreate == InitCreate /\ [][NextCreate]_vars

\* assignment, over any registered users, tasks and earlier assignments
InitAssign ==
    /\ users \in UserTables
    /\ superuser_calls = {}
    /\ admin_requested = {}
    /\ tasks \in {CreatedTasks(n, 0) : n \in 0..MaxTasks}
    /\ assigned \in ThroughTables(users, tasks)
    /\ clock = 0
    /\ resp = NoResponse
    /\ scan = NoScan

NextAssign ==
    \E t \in RequestTaskIds, body \in AssignRequests : TaskViewPost(t, body)

SpecAssign == InitAssign /\ [][NextAssign]_vars

\* listing, over any users, tasks and assignments
InitList ==
    /\ users \in UserTables
    /\ superuser_calls = {}
    /\ admin_requested = {}
    /\ tasks \in TaskTables
    /\ assigned \in ThroughTables(users, tasks)
    /\ clock = MaxClock
    /\ resp = NoResponse
    /\ scan = NoScan

NextList == \E u \in RequestUserIds, q \in ListQueries : UserTasksViewGet(u, q)

SpecList == InitList /\ [][NextList]_vars

-----------------------------------------------------------------------------
(* Properties *)

AllRequired == Range(RequiredFields)

EmailMissing(data) == data.email = <<>> \/ data.email[1] = <<>>

\* C1: assign_users on a task_id that references no Task ends with NotFound
\* (404) whatever the body is, and changes no persisted state.
C1_NoTaskIsNotFound ==
    [][(resp'.op = "assign" /\ resp'.task_id \notin TaskIds)
          => (resp'.status = 404 /\ UNCHANGED db)]_vars

\* C2: for an existing user, a page beyond the last page of the user's tasks
\* is answered with success: an empty task list, the user's summary and the
\* pagination metadata; never with an error.
C2_BeyondLastPageIsEmptySuccess ==
    (/\ resp.op = "list"
     /\ resp.user_id \in UserIds
     /\ get_page_number(resp.req) >
            num_pages(JoinCount(assigned, tasks, resp.user_id), get_page_size(resp.req)))
    => (/\ resp.status = 200
        /\ resp.tasks = <<>>
        /\ resp.user = UserSummary(users, resp.user_id)
        /\ resp.count = JoinCount(assigned, tasks, resp.user_id))

C4_EmptyEmailIsValidationError ==
    [][(resp'.op = "create_user" /\ EmailMissing(resp'.req))
          => (resp'.status = 400 /\ users' = users)]_vars

\* C5: create_task's assignment step fails exactly when a requested id has no
\* User, and then lists the requested ids without a User in request order;
\* when every requested id exists the task is created with the set of
\* requested ids as its assignees, also when the list repeats an id.
C5_AssignFailsIffUserMissing ==
    (/\ resp.op = "create_task"
     /\ resp.req.has = AllRequired
     /\ resp.req.user_id # <<>>)
    => LET ids == PutUserIds(resp.req.user_id[1])
       IN IF Range(ids) \subseteq UserIds
          THEN /\ resp.status = 201
               /\ Assignees(assigned, resp.id) = Range(ids)
          ELSE /\ resp.status = 400
               /\ resp.missing_ids = FilterNotIn(ids, UserIds)

\* C6: assign_users with a list of existing user ids on an existing task
\* succeeds and makes the task's assignees the earlier assignees united with
\* the ids of the list, no id a member twice, the other tasks untouched; the
\* same call made again changes nothing.
C6_AssignIdempotent ==
    [][(/\ resp'.op = "assign"
        /\ resp'.task_id \in TaskIds
        /\ resp'.list
        /\ resp'.ids \subseteq UserIds)
          => (/\ resp'.status = 200
              /\ Assignees(assigned', resp'.task_id)
                     = Assignees(assigned, resp'.task_id) \cup resp'.ids
              /\ \A t \in TaskIds \ {resp'.task_id} :
                     Assignees(assigned', t) = Assignees(assigned, t)
              /\ \A e \in BagToSet(assigned') : CopiesIn(e, assigned') = 1
              /\ m2m_add(assigned', resp'.task_id,
                         FilterUsers(users, resp'.ids)) = assigned')]_vars

\* C6 witness: an assignment succeeded on a task that also keeps an assignee
\* the call did not name.
C6_Witness ==
    /\ resp.op = "assign"
    /\ resp.status = 200
    /\ resp.ids # {}
    /\ resp.ids \subseteq Assignees(assigned, resp.task_id)
    /\ Assignees(assigned, resp.task_id) # resp.ids

\* C7: no row inserted for a request with is_admin=true is ever persisted
\* with is_admin, is_staff or is_superadmin false.
C7_AdminFlagsAtomic ==
    \A id \in admin_requested \cap UserIds :
        users[id].is_admin /\ users[id].is_staff /\ users[id].is_superadmin

\* C8: the pages 1..n of a user's task list, read one after the other with
\* no write in between, hold exactly the tasks assigned to the user, each
\* once, newest first, tasks of equal creation time in insertion order.
C8_PagesAreTheOrderedTaskList ==
    (scan.active /\ scan.read = scan.pages)
    => (/\ Range(scan.got) = {t \in TaskIds : BagIn(<<t, scan.user>>, assigned)}
        /\ \A i, j \in DOMAIN scan.got :
               i < j => \/ tasks[scan.got[i]].created_at > tasks[scan.got[j]].created_at
                        \/ /\ tasks[scan.got[i]].created_at = tasks[scan.got[j]].created_at
                           /\ scan.got[i] < scan.got[j])

\* C9: assign_users on an existing task with a list naming an id without a
\* User ends with 404, lists exactly the ids without a User, each once and
\* ascending, and adds nobody to the task.
C9_MissingUsersSortedNoChange ==
    [][(/\ resp'.op = "assign"
        /\ resp'.task_id \in TaskIds
        /\ resp'.list
        /\ ~(resp'.ids \subseteq UserIds))
          => (/\ resp'.status = 404
              /\ Range(resp'.missing_ids) = resp'.ids \ UserIds
              /\ \A i, j \in DOMAIN resp'.missing_ids :
                     i < j => resp'.missing_ids[i] < resp'.missing_ids[j]
              /\ assigned' = assigned)]_vars

\* C9 witness: a call naming a User and an id without a User failed, and
\* the User it named is not assigned to the task.
C9_Witness ==
    /\ resp.op = "assign"
    /\ resp.status = 404
    /\ resp.missing_ids # <<>>
    /\ \E u \in resp.ids \cap UserIds : u \notin Assignees(assigned, resp.task_id)

\* C10: with the required fields present, a create_task whose requested ids
\* include one without a User returns the error and still persists the new
\* Task, with no assignee; with a required field missing no Task is persisted.
C10_TaskPersistsOnAssignFailure ==
    [][resp'.op = "create_task"
          => IF resp'.req.has # AllRequired
             THEN tasks' = tasks /\ assigned' = assigned
             ELSE (/\ resp'.req.user_id # <<>>
                   /\ ~(Range(PutUserIds(resp'.req.user_id[1])) \subseteq UserIds))
                  => (/\ resp'.status = 400
                      /\ Len(tasks') = Len(tasks) + 1
                      /\ SubSeq(tasks', 1, Len(tasks)) = tasks
                      /\ Assignees(assigned', Len(tasks')) = {}
                      /\ assigned' = assigned)]_vars

\* C10 witness: a create_task naming a User and an id without a User failed;
\* its Task is the last row and has no assignee.
C10_Witness ==
    /\ resp.op = "create_task"
    /\ resp.status = 400
    /\ resp.id = Len(tasks)
    /\ \E i \in DOMAIN resp.req.user_id[1].items :
           resp.req.user_id[1].items[i].n \in UserIds
    /\ resp.missing_ids # <<>>
    /\ Assignees(assigned, resp.id) = {}

=============================================================================
